---- MODULE Spec2Model ----
(***************************************************************************)
(* A model of the NTT engine of src/ntt.py and of its caller src/usage.py: *)
(* secure_next_int, get_prim_root, speedup_FNTT, speedup_INTT and          *)
(* bit_reverse_order.  Each function has its own specification over its    *)
(* own group of variables; the other groups stay idle.                     *)
(***************************************************************************)
EXTENDS Integers, Sequences, FiniteSets

VARIABLES
    \* secure_next_int
    min, max, i_range, numSize, mask, raw, result, rpc,
    \* get_prim_root
    gn, gn2, gq, gr, attempt, draws, uri, candidate, gret, gpc,
    \* usage.py: the tables and the three transform calls
    n, q, psi, psi_inv, psi_table, psi_inv_table, a0, b0, A, m, t, FA, FB, AB, C, job, pc,
    \* bit_reverse_order
    br_a, br_once, br_twice, bpc

rngVars == <<min, max, i_range, numSize, mask, raw, result, rpc>>
rootVars == <<gn, gn2, gq, gr, attempt, draws, uri, candidate, gret, gpc>>
nttVars ==
    <<n, q, psi, psi_inv, psi_table, psi_inv_table, a0, b0, A, m, t, FA, FB, AB, C, job, pc>>
brVars == <<br_a, br_once, br_twice, bpc>>
vars == <<rngVars, rootVars, nttVars, brVars>>
\* What a step of one function leaves alone: the other functions' variables.
notRng == <<rootVars, nttVars, brVars>>
notRoot == <<rngVars, nttVars, brVars>>
notNtt == <<rngVars, rootVars, brVars>>
notBr == <<rngVars, rootVars, nttVars>>

---------------------------------------------------------------------------
(* Python's integer operations, computed on the binary digits.             *)

RECURSIVE Pow2(_)
Pow2(k) == IF k = 0 THEN 1 ELSE 2 * Pow2(k - 1)

\* int.bit_length()
RECURSIVE BitLength(_)
BitLength(x) == IF x = 0 THEN 0 ELSE 1 + BitLength(x \div 2)

\* x >> s
Shr(x, s) == x \div Pow2(s)

\* x | y
RECURSIVE BitOr(_, _)
BitOr(x, y) ==
    IF x = 0 THEN y
    ELSE IF y = 0 THEN x
    ELSE (IF x % 2 = 1 \/ y % 2 = 1 THEN 1 ELSE 0) + 2 * BitOr(x \div 2, y \div 2)

\* x & y
RECURSIVE BitAnd(_, _)
BitAnd(x, y) ==
    IF x = 0 \/ y = 0 THEN 0
    ELSE (IF x % 2 = 1 /\ y % 2 = 1 THEN 1 ELSE 0) + 2 * BitAnd(x \div 2, y \div 2)

\* int(math.log(x, 2)): the floor of log2(x).  For the x = numSize*8 the code
\* passes, the floating-point quotient is 3.0, 4.0, 4.58.. for 8, 16, 24.
RECURSIVE IntLog2(_)
IntLog2(x) == IF x <= 1 THEN 0 ELSE 1 + IntLog2(x \div 2)

\* pow(b, e, md) with e >= 0
RECURSIVE ModPow(_, _, _)
ModPow(b, e, md) ==
    IF e = 0 THEN 1 % md
    ELSE LET h == ModPow(b, e \div 2, md)
         IN IF e % 2 = 0 THEN (h * h) % md ELSE (((h * h) % md) * b) % md

\* pow(x, -1, md): the inverse of x modulo md
ModInv(x, md) == CHOOSE y \in 0..(md - 1) : (x * y) % md = 1 % md

IsPow2(x) == x >= 1 /\ Pow2(BitLength(x) - 1) = x

IsPrime(x) == x >= 2 /\ \A d \in 2..(x - 1) : x % d # 0

---------------------------------------------------------------------------
(* secure_next_int(min, max); raw is the integer read from the random      *)
(* bytes of the last draw, -1 before the first draw.                       *)

\* The widest span drawn exhaustively, and the spans at the byte-width edges.
MaxSpan == 6
\* The random bytes drawn are 0..MaxByte and 255-MaxByte..255.
MaxByte == 2

ByteBits == 8

\* numSize = (i_range.bit_length() + 7) // 8
NumSizeOf(span) == (BitLength(span) + 7) \div ByteBits

\* iter = int(math.log(numSize*8, 2))
IterOf(size) == IntLog2(size * ByteBits)

\* for i in range(iter): mask |= mask >> pow(2, i)
RECURSIVE MaskLoop(_, _, _)
MaskLoop(mk, i, iter) ==
    IF i >= iter THEN mk ELSE MaskLoop(BitOr(mk, Shr(mk, Pow2(i))), i + 1, iter)

MaskOf(span) == MaskLoop(span, 0, IterOf(NumSizeOf(span)))

\* int.from_bytes(bs, byteorder="little")
RECURSIVE FromBytesLittle(_)
FromBytesLittle(bs) ==
    IF bs = <<>> THEN 0 ELSE Head(bs) + Pow2(ByteBits) * FromBytesLittle(Tail(bs))

\* Variant: no rejection, every masked value is taken.
AcceptsMut(res, span) == TRUE

\* if (result <= i_range): break
Accepts(res, span) == res <= span

Spans == (0..MaxSpan) \cup {255, 256, 65535, 65536, 65537, 131073, Pow2(24) - 1}
Mins == {-3, 0, 5}
ByteSamples == (0..MaxByte) \cup ((255 - MaxByte)..255)

RngIdle ==
    /\ min = 0 /\ max = 0 /\ i_range = 0 /\ numSize = 0 /\ mask = 0
    /\ raw = 0 /\ result = 0 /\ rpc = "idle"

RngInit ==
    /\ min \in Mins
    /\ max \in {min + s : s \in Spans} \cup {min - 1}
    /\ i_range = 0 /\ numSize = 0 /\ mask = 0 /\ raw = -1 /\ result = 0
    /\ rpc = "call"

\* lines 31-40: the early returns, the raise, and the mask
RngPrepare ==
    /\ rpc = "call"
    /\ IF min = max
       THEN /\ result' = min /\ rpc' = "done"
            /\ UNCHANGED <<i_range, numSize, mask>>
       ELSE IF min > max
       THEN /\ rpc' = "raised"
            /\ UNCHANGED <<i_range, numSize, mask, result>>
       ELSE /\ i_range' = max - min
            /\ numSize' = NumSizeOf(max - min)
            /\ mask' = MaskOf(max - min)
            /\ result' = 0
            /\ rpc' = "draw"
    /\ UNCHANGED <<min, max, raw>>
    /\ UNCHANGED notRng

\* lines 41-45: one pass of the rejection loop
RngDraw ==
    /\ rpc = "draw"
    /\ \E bs \in [1..numSize -> ByteSamples] :
         LET rv == FromBytesLittle(bs)
             res == BitAnd(rv, mask)
         IN /\ raw' = rv
            /\ IF Accepts(res, i_range)
               THEN /\ result' = res + min /\ rpc' = "done"
               ELSE /\ result' = res /\ rpc' = "draw"
    /\ UNCHANGED <<min, max, i_range, numSize, mask>>
    /\ UNCHANGED notRng

RngNext == RngPrepare \/ RngDraw

---------------------------------------------------------------------------
(* get_prim_root(n, q)                                                     *)

\* The largest modulus of the root search.
MaxQ == 41

\* tries = 50
Tries == 50

\* Every value secure_next_int(lo, hi) can return, over all the raw values of
\* its numSize random bytes (lines 31-45).
SecureNextIntResults(lo, hi) ==
    IF lo = hi THEN {lo}
    ELSE IF lo > hi THEN {}
    ELSE LET span == hi - lo
             mk == MaskOf(span)
             rawValues == 0..(Pow2(ByteBits * NumSizeOf(span)) - 1)
         IN {lo + BitAnd(rv, mk) : rv \in {x \in rawValues : Accepts(BitAnd(x, mk), span)}}

\* Variant: n = 2*n left out.
DoubledNMut(deg) == deg

\* n = 2*n
DoubledN(deg) == 2 * deg

\* r = (q - 1) // n, with n already doubled
DefaultR(n2, md) == (md - 1) \div n2

\* candidate = pow(uri, r, q)
CandidateOf(x, r, md) == ModPow(x, r, md)

\* if pow(candidate, n//2, q) == q-1
IsAccepted(cand, n2, md) == ModPow(cand, n2 \div 2, md) = md - 1

\* Variant: range(tries + 1).
LoopContinuesMut(done) == done <= Tries

\* for _ in range(tries): another pass is due
LoopContinues(done) == done < Tries

RootParams ==
    {p \in {1, 2, 4, 8} \X (3..MaxQ) : IsPrime(p[2]) /\ (p[2] - 1) % (2 * p[1]) = 0}

RootIdle ==
    /\ gn = 0 /\ gn2 = 0 /\ gq = 0 /\ gr = 0 /\ attempt = 0 /\ draws = 0
    /\ uri = 0 /\ candidate = 0 /\ gret = <<>> /\ gpc = "idle"

\* lines 73-76: gn is the argument n, gn2 is n after n = 2*n; gret is the
\* value returned, <<>> while there is none
RootInit ==
    /\ \E p \in RootParams :
         /\ gn = p[1]
         /\ gn2 = DoubledN(p[1])
         /\ gq = p[2]
         /\ gr = DefaultR(DoubledN(p[1]), p[2])
    /\ attempt = 0 /\ draws = 0 /\ uri = 0 /\ candidate = 0 /\ gret = <<>>
    /\ gpc = "loop"

\* lines 77-81: one pass of the loop
RootTry ==
    /\ gpc = "loop"
    /\ LoopContinues(attempt)
    /\ \E x \in SecureNextIntResults(2, gq - 1) :
         LET cand == CandidateOf(x, gr, gq)
         IN /\ uri' = x
            /\ candidate' = cand
            /\ draws' = draws + 1
            /\ IF IsAccepted(cand, gn2, gq)
               THEN /\ gret' = <<cand>> /\ gpc' = "returned" /\ attempt' = attempt
               ELSE /\ gret' = gret /\ gpc' = "loop" /\ attempt' = attempt + 1
    /\ UNCHANGED <<gn, gn2, gq, gr>>
    /\ UNCHANGED notRoot

\* line 82: the loop ran out
RootFail ==
    /\ gpc = "loop"
    /\ ~LoopContinues(attempt)
    /\ gpc' = "raised"
    /\ UNCHANGED <<gn, gn2, gq, gr, attempt, draws, uri, candidate, gret>>
    /\ UNCHANGED notRoot

RootNext == RootTry \/ RootFail

---------------------------------------------------------------------------
(* bit_reverse_order(a)                                                    *)

\* bin(i)[2:], most significant digit first
RECURSIVE BinDigits(_)
BinDigits(i) == IF i < 2 THEN <<i>> ELSE Append(BinDigits(i \div 2), i % 2)

\* str.zfill(width)
RECURSIVE ZFill(_, _)
ZFill(s, width) == IF Len(s) >= width THEN s ELSE ZFill(<<0>> \o s, width)

\* s[::-1]
Reversed(s) == [i \in 1..Len(s) |-> s[Len(s) + 1 - i]]

\* int(s, 2)
RECURSIVE ParseBin(_)
ParseBin(s) ==
    IF s = <<>> THEN 0 ELSE 2 * ParseBin(SubSeq(s, 1, Len(s) - 1)) + s[Len(s)]

\* Variant: num_bits = len(bin(len(a))) - 2.
NumBitsMut(len) == Len(BinDigits(len))

\* num_bits = len(bin(len(a) - 1)) - 2; bin(-1) is "-0b1"
NumBits(len) == IF len = 0 THEN 2 ELSE Len(BinDigits(len - 1))

\* rev_index = int(bin(i)[2:].zfill(num_bits)[::-1], 2)
RevIndex(i, num_bits) == ParseBin(Reversed(ZFill(BinDigits(i), num_bits)))

\* for i in range(len(a)): result[rev_index] = a[i]; indices are 0-based in
\* the code and 1-based here.  A store past the end raises IndexError.
RECURSIVE BitReverseLoop(_, _, _, _)
BitReverseLoop(a, res, i, num_bits) ==
    IF i >= Len(a) THEN [err |-> FALSE, val |-> res]
    ELSE LET rev_index == RevIndex(i, num_bits)
         IN IF rev_index >= Len(a) THEN [err |-> TRUE, val |-> res]
            ELSE BitReverseLoop(a, [res EXCEPT ![rev_index + 1] = a[i + 1]], i + 1, num_bits)

bit_reverse_order(a) ==
    BitReverseLoop(a, [i \in 1..Len(a) |-> 0], 0, NumBits(Len(a)))

\* The longest sequence reordered, and the largest element in it.
MaxLen == 8
MaxElem == 1

BrInputs == UNION {[1..len -> 0..MaxElem] : len \in 0..MaxLen}

BrIdle == br_a = <<>> /\ br_once = <<>> /\ br_twice = <<>> /\ bpc = "idle"

BrInit == br_a \in BrInputs /\ br_once = <<>> /\ br_twice = <<>> /\ bpc = "call"

\* bit_reverse_order(a)
BrFirst ==
    /\ bpc = "call"
    /\ LET r1 == bit_reverse_order(br_a)
       IN IF r1.err
          THEN /\ bpc' = "IndexError" /\ br_once' = br_once
          ELSE /\ bpc' = "once" /\ br_once' = r1.val
    /\ UNCHANGED <<br_a, br_twice>>
    /\ UNCHANGED notBr

\* bit_reverse_order(bit_reverse_order(a))
BrSecond ==
    /\ bpc = "once"
    /\ LET r2 == bit_reverse_order(br_once)
       IN IF r2.err
          THEN /\ bpc' = "IndexError" /\ br_twice' = br_twice
          ELSE /\ bpc' = "twice" /\ br_twice' = r2.val
    /\ UNCHANGED <<br_a, br_once>>
    /\ UNCHANGED notBr

BrNext == BrFirst \/ BrSecond

---------------------------------------------------------------------------
(* speedup_FNTT and speedup_INTT.  Lists are 0-based in the code and       *)
(* 1-based here: A[j] of the code is A[j + 1].                             *)

\* psi_table[i] = (psi_table[i-1] * psi) % q, from [1] * n (usage.py 14-18)
RECURSIVE PowerTable(_, _, _)
PowerTable(root, len, md) ==
    IF len <= 1 THEN [i \in 1..len |-> 1]
    ELSE LET prev == PowerTable(root, len - 1, md)
         IN Append(prev, (prev[len - 1] * root) % md)

\* Variant: j_1 = i * t.
FnttJ1Mut(i, tt) == i * tt

\* FNTT: j_1 = 2 * i * t
FnttJ1(i, tt) == 2 * i * tt

\* FNTT: j_2 = j_1 + t - 1
FnttJ2(j_1, tt) == j_1 + tt - 1

\* Variant: S = psi_table_rev[i].
FnttTwiddleMut(mm, i) == i

\* FNTT: S = psi_table_rev[m + i]
FnttTwiddle(mm, i) == mm + i

\* for j in range(j_1, j_2+1): the butterflies of one group, in order
Group(j_1, j_2, tt, s) ==
    [d \in 1..(j_2 - j_1 + 1) |-> [j |-> j_1 + d - 1, k |-> j_1 + d - 1 + tt, s |-> s]]

\* for i in range(m): every butterfly of one FNTT stage, in order
RECURSIVE FnttButterflies(_, _, _)
FnttButterflies(i, mm, tt) ==
    IF i >= mm THEN <<>>
    ELSE Group(FnttJ1(i, tt), FnttJ2(FnttJ1(i, tt), tt), tt, FnttTwiddle(mm, i))
         \o FnttButterflies(i + 1, mm, tt)

\* INTT: S = psi_inv_table_rev[h + i]
InttTwiddle(h, i) == h + i

\* INTT: j_1 += t << 1
InttNextJ1(j_1, tt) == j_1 + 2 * tt

\* for i in range(h): every butterfly of one INTT stage, in order
RECURSIVE InttButterflies(_, _, _, _)
InttButterflies(i, j_1, h, tt) ==
    IF i >= h THEN <<>>
    ELSE Group(j_1, j_1 + tt - 1, tt, InttTwiddle(h, i))
         \o InttButterflies(i + 1, InttNextJ1(j_1, tt), h, tt)

\* Every list access of the butterflies is inside the list and the table.
InBounds(bfs, len, tableLen) ==
    \A p \in 1..Len(bfs) :
        /\ bfs[p].j >= 0 /\ bfs[p].j < len
        /\ bfs[p].k >= 0 /\ bfs[p].k < len
        /\ bfs[p].s >= 0 /\ bfs[p].s < tableLen

\* U = A[j]; V = A[j + t] * S; A[j] = (U + V) % q; A[j + t] = (U - V) % q
CooleyTukey(vec, bf, md, table) ==
    LET U == vec[bf.j + 1]
        V == vec[bf.k + 1] * table[bf.s + 1]
    IN [vec EXCEPT ![bf.j + 1] = (U + V) % md, ![bf.k + 1] = (U - V) % md]

\* Variant: the twiddle factor S left out of the second output.
GentlemanSandeMut(vec, bf, md, table) ==
    LET U == vec[bf.j + 1]
        V == vec[bf.k + 1]
    IN [vec EXCEPT ![bf.j + 1] = (U + V) % md, ![bf.k + 1] = (U - V) % md]

\* U = A[j]; V = A[j + t]; A[j] = (U + V) % q; A[j + t] = ((U - V) * S) % q
GentlemanSande(vec, bf, md, table) ==
    LET U == vec[bf.j + 1]
        V == vec[bf.k + 1]
    IN [vec EXCEPT ![bf.j + 1] = (U + V) % md,
                   ![bf.k + 1] = ((U - V) * table[bf.s + 1]) % md]

RECURSIVE ApplyFntt(_, _, _, _, _)
ApplyFntt(vec, bfs, p, md, table) ==
    IF p > Len(bfs) THEN vec
    ELSE ApplyFntt(CooleyTukey(vec, bfs[p], md, table), bfs, p + 1, md, table)

RECURSIVE ApplyIntt(_, _, _, _, _)
ApplyIntt(vec, bfs, p, md, table) ==
    IF p > Len(bfs) THEN vec
    ELSE ApplyIntt(GentlemanSande(vec, bfs[p], md, table), bfs, p + 1, md, table)

\* Variant: the final scaling by n_inv left out.
ScaledMut(vec, md) == vec

\* n_inv = pow(n, -1, q); A[j] = (A[j] * n_inv) % q
Scaled(vec, md) == [i \in 1..Len(vec) |-> (vec[i] * ModInv(Len(vec), md)) % md]

\* AB = [(x*y) % q for x,y in zip(A,B)] (usage.py 28)
Pointwise(x, y, md) == [i \in 1..Len(x) |-> (x[i] * y[i]) % md]

\* Every root get_prim_root(deg, md) can return (lines 73-81).
PrimRootResults(deg, md) ==
    {c \in {CandidateOf(x, DefaultR(DoubledN(deg), md), md) :
                x \in SecureNextIntResults(2, md - 1)} :
        IsAccepted(c, DoubledN(deg), md)}

\* The largest coefficient of the one-term polynomials transformed.
MaxCoef == 1

\* (n, q) with n a power of two and q a prime, q = 1 mod 2n; (8, 17) is the
\* toy example of usage.py.
NttParams == {<<1, 3>>, <<2, 5>>, <<2, 13>>, <<4, 17>>, <<4, 41>>, <<8, 17>>, <<16, 97>>}

\* The polynomials transformed: [1, 2, .., n] (A and B of usage.py), the
\* all-(q-1) one, the squares, and the one-term ones c*x^i.
Vectors(deg, md) ==
    {[i \in 1..deg |-> i % md], [i \in 1..deg |-> md - 1], [i \in 1..deg |-> (i * i + 1) % md]}
    \cup {[i \in 1..deg |-> IF i = e THEN c ELSE 0] : e \in 1..deg, c \in 0..MaxCoef}

NttIdle ==
    /\ n = 0 /\ q = 0 /\ psi = 0 /\ psi_inv = 0 /\ psi_table = <<>> /\ psi_inv_table = <<>>
    /\ a0 = <<>> /\ b0 = <<>> /\ A = <<>> /\ m = 0 /\ t = 0
    /\ FA = <<>> /\ FB = <<>> /\ AB = <<>> /\ C = <<>> /\ job = "idle" /\ pc = "idle"

\* usage.py 4-11; job "roundtrip" inverts the transform of A itself
NttInit ==
    /\ \E p \in NttParams :
         /\ n = p[1] /\ q = p[2]
         /\ psi \in PrimRootResults(p[1], p[2])
         /\ a0 \in Vectors(p[1], p[2])
         /\ \/ job = "roundtrip" /\ b0 = a0
            \/ job = "multiply" /\ b0 \in Vectors(p[1], p[2])
    /\ psi_inv = ModInv(psi, q)
    /\ psi_table = <<>> /\ psi_inv_table = <<>>
    /\ A = <<>> /\ m = 0 /\ t = 0
    /\ FA = <<>> /\ FB = <<>> /\ AB = <<>> /\ C = <<>>
    /\ pc = "tables"

\* usage.py 14-22
BuildTables ==
    /\ pc = "tables"
    /\ psi_table' = bit_reverse_order(PowerTable(psi, n, q)).val
    /\ psi_inv_table' = bit_reverse_order(PowerTable(psi_inv, n, q)).val
    /\ pc' = "call_fntt_a"
    /\ UNCHANGED <<n, q, psi, psi_inv, a0, b0, A, m, t, FA, FB, AB, C, job>>
    /\ UNCHANGED notNtt

\* speedup_FNTT lines 107-110
FnttCall ==
    /\ pc \in {"call_fntt_a", "call_fntt_b"}
    /\ A' = (IF pc = "call_fntt_a" THEN a0 ELSE b0)
    /\ t' = Len(A')
    /\ m' = 1
    /\ pc' = (IF pc = "call_fntt_a" THEN "fntt_a" ELSE "fntt_b")
    /\ UNCHANGED <<n, q, psi, psi_inv, psi_table, psi_inv_table, a0, b0, FA, FB, AB, C, job>>
    /\ UNCHANGED notNtt

\* speedup_FNTT lines 111-122: one pass of the while loop
FnttStage ==
    /\ pc \in {"fntt_a", "fntt_b"}
    /\ m < Len(A)
    /\ LET tt == Shr(t, 1)
           bfs == FnttButterflies(0, m, tt)
       IN IF InBounds(bfs, Len(A), Len(psi_table))
          THEN /\ A' = ApplyFntt(A, bfs, 1, q, psi_table)
               /\ t' = tt
               /\ m' = 2 * m
               /\ pc' = pc
          ELSE /\ pc' = "IndexError"
               /\ UNCHANGED <<A, t, m>>
    /\ UNCHANGED <<n, q, psi, psi_inv, psi_table, psi_inv_table, a0, b0, FA, FB, AB, C, job>>
    /\ UNCHANGED notNtt

\* speedup_FNTT line 123, and the caller's next step (usage.py 25-26)
FnttReturn ==
    /\ pc \in {"fntt_a", "fntt_b"}
    /\ ~(m < Len(A))
    /\ IF pc = "fntt_a"
       THEN /\ FA' = A /\ FB' = FB
            /\ pc' = (IF job = "roundtrip" THEN "call_intt" ELSE "call_fntt_b")
       ELSE /\ FB' = A /\ FA' = FA
            /\ pc' = "mult"
    /\ UNCHANGED <<n, q, psi, psi_inv, psi_table, psi_inv_table, a0, b0, A, m, t, AB, C, job>>
    /\ UNCHANGED notNtt

\* usage.py 28
Multiply ==
    /\ pc = "mult"
    /\ AB' = Pointwise(FA, FB, q)
    /\ pc' = "call_intt"
    /\ UNCHANGED <<n, q, psi, psi_inv, psi_table, psi_inv_table, a0, b0, A, m, t, FA, FB, C, job>>
    /\ UNCHANGED notNtt

\* speedup_INTT lines 147-150
InttCall ==
    /\ pc = "call_intt"
    /\ A' = (IF job = "roundtrip" THEN FA ELSE AB)
    /\ t' = 1
    /\ m' = Len(A')
    /\ pc' = "intt"
    /\ UNCHANGED <<n, q, psi, psi_inv, psi_table, psi_inv_table, a0, b0, FA, FB, AB, C, job>>
    /\ UNCHANGED notNtt

\* speedup_INTT lines 151-164: one pass of the while loop
InttStage ==
    /\ pc = "intt"
    /\ m > 1
    /\ LET h == Shr(m, 1)
           bfs == InttButterflies(0, 0, h, t)
       IN IF InBounds(bfs, Len(A), Len(psi_inv_table))
          THEN /\ A' = ApplyIntt(A, bfs, 1, q, psi_inv_table)
               /\ t' = 2 * t
               /\ m' = h
               /\ pc' = pc
          ELSE /\ pc' = "IndexError"
               /\ UNCHANGED <<A, t, m>>
    /\ UNCHANGED <<n, q, psi, psi_inv, psi_table, psi_inv_table, a0, b0, FA, FB, AB, C, job>>
    /\ UNCHANGED notNtt

\* speedup_INTT lines 165-168
InttReturn ==
    /\ pc = "intt"
    /\ ~(m > 1)
    /\ A' = Scaled(A, q)
    /\ C' = A'
    /\ pc' = "done"
    /\ UNCHANGED <<n, q, psi, psi_inv, psi_table, psi_inv_table, a0, b0, m, t, FA, FB, AB, job>>
    /\ UNCHANGED notNtt

NttNext ==
    \/ BuildTables \/ FnttCall \/ FnttStage \/ FnttReturn
    \/ Multiply \/ InttCall \/ InttStage \/ InttReturn

---------------------------------------------------------------------------
(* The specifications: one function at a time, the rest idle.              *)

InitRng == RngInit /\ RootIdle /\ NttIdle /\ BrIdle
SpecRng == InitRng /\ [][RngNext]_vars

InitRoot == RootInit /\ RngIdle /\ NttIdle /\ BrIdle
SpecRoot == InitRoot /\ [][RootNext]_vars

InitNtt == NttInit /\ RngIdle /\ RootIdle /\ BrIdle
SpecNtt == InitNtt /\ [][NttNext]_vars

InitBitRev == BrInit /\ RngIdle /\ RootIdle /\ NttIdle
SpecBitRev == InitBitRev /\ [][BrNext]_vars

---------------------------------------------------------------------------
(* The properties.                                                         *)

RECURSIVE SeqSum(_)
SeqSum(s) == IF s = <<>> THEN 0 ELSE Head(s) + SeqSum(Tail(s))

\* (sum over j of a[j] * root^((2k+1)*j)) mod md, a indexed from 0
DirectEval(a, root, k, md) ==
    SeqSum([j \in 1..Len(a) |-> a[j] * ModPow(root, (2 * k + 1) * (j - 1), md)]) % md

\* C[k] = (sum_{i+j=k} a[i]*b[j] - sum_{i+j=k+n} a[i]*b[j]) mod md, from 0
NegacyclicConvolution(a, b, md) ==
    [k1 \in 1..Len(a) |->
        LET k == k1 - 1
            len == Len(a)
            low == SeqSum([i1 \in 1..len |->
                       IF k - (i1 - 1) >= 0 THEN a[i1] * b[k - (i1 - 1) + 1] ELSE 0])
            high == SeqSum([i1 \in 1..len |->
                       IF k + len - (i1 - 1) <= len - 1
                       THEN a[i1] * b[k + len - (i1 - 1) + 1] ELSE 0])
        IN (low - high) % md]

\* k with its log2(len) binary digits reversed
BitReversed(k, len) == RevIndex(k, BitLength(len) - 1)

\* C1: the inverse transform of the forward transform of a is a.
C1_RoundTrip == (job = "roundtrip" /\ pc = "done") => C = a0

C1_Witness == job = "roundtrip" /\ pc = "done" /\ n = 16 /\ FA # a0 /\ C = a0

\* C2: for n in {4, 8, 16} the inverse transform of the pointwise product of
\* the two forward transforms is the negative-wrapped convolution computed
\* directly, for every root get_prim_root can return.
C2_Convolution ==
    (job = "multiply" /\ pc = "done" /\ n \in {4, 8, 16})
        => C = NegacyclicConvolution(a0, b0, q)

C2_Witness ==
    /\ job = "multiply" /\ pc = "done" /\ n = 8 /\ q = 17
    /\ a0 = <<1, 2, 3, 4, 5, 6, 7, 8>> /\ b0 = a0
    /\ C = NegacyclicConvolution(a0, b0, q)

\* C3: a value get_prim_root(n, q) returns has psi^n = q-1 and psi^(2n) = 1
\* modulo q, and so has order exactly 2n.
C3_RootIsPrimitive ==
    gpc = "returned" =>
        LET root == gret[1]
        IN /\ ModPow(root, gn, gq) = gq - 1
           /\ ModPow(root, 2 * gn, gq) = 1
           /\ \A d \in 1..(2 * gn - 1) : ModPow(root, d, gq) # 1

C3_Witness == gpc = "returned" /\ gn = 8 /\ draws > 1

\* The states right after speedup_FNTT has returned FA, and FB.
ReturnedFA == pc = "call_fntt_b" \/ (pc = "call_intt" /\ job = "roundtrip")
ReturnedFB == pc = "mult"

\* C4 as stated: speedup_FNTT returns the transform in natural order,
\* output[k] = (sum_j a[j] * psi^((2k+1)*j)) mod q.
C4_NaturalOrder ==
    /\ ReturnedFA => \A k \in 0..(n - 1) : FA[k + 1] = DirectEval(a0, psi, k, q)
    /\ ReturnedFB => \A k \in 0..(n - 1) : FB[k + 1] = DirectEval(b0, psi, k, q)

\* C4 amended: speedup_FNTT returns the transform in bit-reversed order,
\* output[k] = (sum_j a[j] * psi^((2*brv(k)+1)*j)) mod q, where brv reverses
\* the log2(n) binary digits of k.
C4_BitReversedOrder ==
    /\ ReturnedFA =>
         \A k \in 0..(n - 1) : FA[k + 1] = DirectEval(a0, psi, BitReversed(k, n), q)
    /\ ReturnedFB =>
         \A k \in 0..(n - 1) : FB[k + 1] = DirectEval(b0, psi, BitReversed(k, n), q)

C4_Witness ==
    /\ ReturnedFA /\ n = 8
    /\ \E k \in 0..(n - 1) : FA[k + 1] # DirectEval(a0, psi, k, q)

\* C5: a value secure_next_int(min, max) returns lies in [min, max].
C5_InRange == rpc = "done" => (min <= result /\ result <= max)

C5_Witness == rpc = "done" /\ raw > i_range /\ mask > i_range /\ result > min

\* C6: secure_next_int is uniform over [min, max]: every v in [min, max] is
\* returned, each for the same number of raw values.  The value returned is
\* min + (raw & mask), so v = min + x is returned at all only if the raw
\* value x itself is accepted and returned as min + x; when that holds for
\* every x <= i_range, each v has 2^(free bits of mask) raw values.
C6_Uniform ==
    (rpc \in {"draw", "done"} /\ raw >= 0 /\ raw <= i_range)
        => (rpc = "done" /\ result = min + raw)

\* C7: at most 50 candidates are drawn; the first accepted one is returned at
\* once; after 50 failures the search raises and returns nothing.
C7_FiftyDraws ==
    /\ draws <= 50
    /\ gpc = "loop" => (draws = attempt /\ gret = <<>>
                        /\ (draws > 0 => ModPow(candidate, gn, gq) # gq - 1))
    /\ gpc = "returned" => (draws = attempt + 1 /\ gret = <<candidate>>
                            /\ ModPow(candidate, gn, gq) = gq - 1)
    /\ gpc = "raised" => (draws = 50 /\ attempt = 50 /\ gret = <<>>
                          /\ ModPow(candidate, gn, gq) # gq - 1)

C7_Witness == gpc = "raised" /\ draws = 50

\* C8: on a sequence whose length is a power of two, bit_reverse_order does
\* not raise, and applied twice it gives the sequence back.
C8_SelfInverse ==
    IsPow2(Len(br_a)) =>
        /\ bpc # "IndexError"
        /\ bpc = "twice" => br_twice = br_a

C8_Witness == bpc = "twice" /\ Len(br_a) = 8 /\ br_once # br_a /\ br_twice = br_a

\* C9: the mask has every bit set up to the highest set bit of the span:
\* mask = 2^bit_length(span) - 1.
C9_MaskCoversSpan ==
    (rpc \in {"draw", "done"} /\ i_range >= 1) => mask = Pow2(BitLength(i_range)) - 1

\* The indices j and j+t of the butterflies are each of 0..len-1 exactly
\* once, and the table indices lie in 1..len-1.
Partitions(bfs, len) ==
    /\ 2 * Len(bfs) = len
    /\ {bfs[p].j : p \in 1..Len(bfs)} \cup {bfs[p].k : p \in 1..Len(bfs)} = 0..(len - 1)
    /\ \A p \in 1..Len(bfs) : bfs[p].k <= len - 1 /\ bfs[p].s >= 1 /\ bfs[p].s <= len - 1

\* C10: in every stage of speedup_FNTT and of speedup_INTT the butterfly
\* pairs (j, j+t) partition 0..n-1 and the table indices lie in [1, n-1]; no
\* access is out of bounds.
C10_StageIndices ==
    /\ pc # "IndexError"
    /\ (pc \in {"fntt_a", "fntt_b"} /\ m < Len(A))
         => Partitions(FnttButterflies(0, m, Shr(t, 1)), n)
    /\ (pc = "intt" /\ m > 1)
         => Partitions(InttButterflies(0, 0, Shr(m, 1), t), n)

C10_Witness == pc = "intt" /\ n = 16 /\ m = 4 /\ t = 4

====
